---- MODULE Spec2Model ----
(***************************************************************************)
(* A model of stuffpot (src/main.go): an intercepting proxy built on       *)
(* goproxy.  Three parts of the program are modelled:                       *)
(*                                                                          *)
(*   - the proxy proper: main's startup (NewLogger, ListenAndServe), the   *)
(*     CONNECT dispatch over the registered handlers,                       *)
(*     the OnRequest handler (DoFunc) with HttpLogger.LogReq, the upstream  *)
(*     round trip and the response (specification Spec; SpecLog is the same *)
(*     handler on one direct request with every header map in the bounds);  *)
(*   - the HijackConnect handler of main, the plaintext relay, as a unit    *)
(*     entered with a hijacked client connection (specification SpecRelay); *)
(*   - stoppableListener and stoppableConn with the WaitGroup they share,   *)
(*     under any calls of Accept, Close and Wait (specification             *)
(*     SpecListener; SpecDrain is a drain in which every connection is      *)
(*     closed once).                                                        *)
(*                                                                          *)
(* Strings are sequences of one-character strings, so that lower-casing,    *)
(* formatting, joining and suffix matching are computed, not assumed.       *)
(***************************************************************************)
EXTENDS Naturals, Integers, Sequences, FiniteSets, TLC

\* ------------------------------------------------------------------ bounds
\* connections served concurrently by the proxy
NumConns == 2
\* requests the proxy reads in one run, over all connections
MaxReqs == 2
\* values one header name carries at most
MaxVals == 2
\* plaintext tunnels relayed concurrently
NumTunnels == 2
\* requests a client sends on one tunnel at most
MaxTunnelReqs == 2
\* calls of Accept on the stoppable listener
MaxAccepts == 3
\* calls of Close on one accepted connection
MaxCloses == 2

VARIABLES
    pc,          \* per connection: where its serving goroutine stands
    route,       \* per connection: the dispatcher's classification
    target,      \* per connection: the CONNECT target host:port, while the
                 \* tunnel is set up (<<>> if none)
    cur,         \* per connection: the request being handled (0: none)
    hdr,         \* per connection: req.Header of that request
    headersCol,  \* per connection: LogReq's local headersCol
    tx,          \* per connection: LogReq's local tx
    stmt,        \* per connection: LogReq's local stmt
    pending,     \* per connection: the row inserted in tx and not committed
    failedAt,    \* per connection: the step of LogReq that returned an error
    outcome,     \* per connection: how LogReq ended for the request
    fwd,         \* per connection: <<header map>> handed to the transport
    responded,   \* per connection: the response went back to the client
    logf,        \* per connection: what ctx.Logf was called with
    nreq,        \* requests read so far, over all connections
    rows,        \* the requests table: the committed rows, in commit order
    openTx,      \* transactions begun and neither committed nor rolled back
    crashed,     \* a panic no one recovered: the process is gone
    mainPc,      \* where main stands
    schema,      \* the requests table: "pending", "ok" or "failed"
    \* the plaintext relay, per tunnel
    rpc,         \* where the HijackConnect handler stands
    dialed,      \* the result of net.Dial
    client,      \* the client connection: "open" or "closed"
    remote,      \* the upstream connection: "none", "open" or "closed"
    clientBuf,   \* what clientBuf.Writer holds, not yet flushed
    remoteBuf,   \* what remoteBuf.Writer holds, not yet flushed
    clientOut,   \* what was written to the client connection, in order
    remoteOut,   \* what was written to the upstream connection, in order
    nread,       \* requests read from the client
    nresp,       \* responses read from upstream
    req,         \* the loop's local req (0: none)
    resp,        \* the loop's local resp (0: none)
    e,           \* the value the handler panicked with ("none": no panic)
    \* the stoppable listener
    counter,     \* the counter of sl.WaitGroup
    sock,        \* per Accept call: the socket it returned ("none": an error)
    closeCalls,  \* per accepted connection: the calls of its Close so far
    closeRet,    \* per accepted connection: what its last Close returned
    acceptCalls, \* the calls of Accept so far
    waiter,      \* a goroutine in sl.Wait(): "none", "waiting" or "released"
    openAtRelease, \* the sockets that were open when Wait returned
    wgPanic      \* the WaitGroup panicked: its counter went negative

\* what belongs to one connection's session and request
sessionVars == <<route, target>>
requestVars == <<cur, hdr, failedAt, outcome, fwd, responded, logf>>
logReqVars == <<headersCol, tx, stmt, pending>>
storeVars == <<nreq, rows, openTx>>

mainVars == <<mainPc, schema>>
proxyVars ==
    <<pc, sessionVars, requestVars, logReqVars, storeVars, crashed, mainVars>>

relayVars == <<rpc, dialed, client, remote, clientBuf, remoteBuf, clientOut,
               remoteOut, nread, nresp, req, resp, e>>

listenerVars == <<counter, sock, closeCalls, closeRet, acceptCalls, waiter,
                  openAtRelease, wgPanic>>

vars == <<proxyVars, relayVars, listenerVars>>

Conns == 1..NumConns
Tunnels == 1..NumTunnels

\* ----------------------------------------------------------------- strings
Upper == <<"A", "B", "C", "W">>
Lower == <<"a", "b", "c", "w">>

\* strings.ToLower on one character
ToLowerChar(ch) ==
    IF \E i \in 1..Len(Upper) : Upper[i] = ch
    THEN Lower[CHOOSE i \in 1..Len(Upper) : Upper[i] = ch]
    ELSE ch

\* strings.ToLower
ToLower(s) == [i \in 1..Len(s) |-> ToLowerChar(s[i])]

\* fmt.Sprintf("%v: %v", name, h)
Sprintf(name, h) == name \o <<":", " ">> \o h

CRLF == <<"\r", "\n">>

\* strings.Join(elems, sep)
RECURSIVE Join(_, _)
Join(elems, sep) ==
    IF Len(elems) = 0 THEN <<>>
    ELSE IF Len(elems) = 1 THEN elems[1]
    ELSE elems[1] \o sep \o Join(Tail(elems), sep)

HasSuffix(s, suffix) ==
    /\ Len(s) >= Len(suffix)
    /\ SubSeq(s, Len(s) - Len(suffix) + 1, Len(s)) = suffix

HasPrefix(s, prefix) ==
    /\ Len(s) >= Len(prefix)
    /\ SubSeq(s, 1, Len(prefix)) = prefix

\* ------------------------------------------------------------ header maps
HeaderNames == {<<"A", "b">>, <<"C">>}
HeaderValues == {<<"v">>, <<"W">>}

ValueLists == UNION {[1..n -> HeaderValues] : n \in 0..MaxVals}

\* http.Header: a map from header name to the list of its values
AllHeaders == UNION {[D -> ValueLists] : D \in SUBSET HeaderNames}

\* the header map the requests of Spec carry: one name with two values
SampleHeaders ==
    {h \in AllHeaders : /\ DOMAIN h = {<<"A", "b">>}
                        /\ h[<<"A", "b">>] = <<(<<"v">>), (<<"W">>)>>}

\* the orders in which a range over the map may visit its keys
Orders(h) ==
    {o \in [1..Cardinality(DOMAIN h) -> DOMAIN h] :
        \A i, j \in DOMAIN o : i # j => o[i] # o[j]}

\* LinesOf with the whole line lower-cased instead of the name
LinesOfLowerAll(name, headers) ==
    [i \in 1..Len(headers) |-> ToLower(Sprintf(name, headers[i]))]

\* the inner loop of LogReq: one line per value of one name, in order
LinesOf(name, headers) ==
    [i \in 1..Len(headers) |-> Sprintf(ToLower(name), headers[i])]

\* the outer loop of LogReq, visiting the names in order o
RECURSIVE HeadersColOf(_, _)
HeadersColOf(h, o) ==
    IF Len(o) = 0 THEN <<>>
    ELSE LinesOf(o[1], h[o[1]]) \o HeadersColOf(h, Tail(o))

\* ------------------------------------------------------------ the dispatch
Targets == { <<"h", ":", "8", "0">>,
             <<"h", ":", "4", "4", "3">>,
             <<"h", ":", "8", "0", "8", "0">> }

\* regexp ^.*$ : any run of characters other than a line feed
MatchesAny(host) == \A i \in 1..Len(host) : host[i] # "\n"

\* regexp ^.*:80$
MatchesPort80(host) == MatchesAny(host) /\ HasSuffix(host, <<":", "8", "0">>)

ReqHostMatches(re, host) ==
    IF re = "^.*$" THEN MatchesAny(host) ELSE MatchesPort80(host)

\* the CONNECT handlers main registers, in the order it registers them
httpsHandlers ==
    << [re |-> "^.*$",     action |-> "Mitm"],
       [re |-> "^.*:80$",  action |-> "Hijack"] >>

\* goproxy asks the handlers in order; the first that matches decides, and
\* with none matching the tunnel is accepted as is
RECURSIVE HandleConnect(_, _)
HandleConnect(handlers, host) ==
    IF Len(handlers) = 0 THEN "Accept"
    ELSE IF ReqHostMatches(handlers[1].re, host) THEN handlers[1].action
    ELSE HandleConnect(Tail(handlers), host)

EntryPc(action) ==
    CASE action = "Mitm" -> "Handshake"
      [] action = "Hijack" -> "Hijacked"
      [] OTHER -> "Tunnel"

\* -------------------------------------------------------------------- Init
NoHeader == [n \in {} |-> <<>>]

ProxyInit ==
    /\ pc = [c \in Conns |-> "Idle"]
    /\ route = [c \in Conns |-> "None"]
    /\ target = [c \in Conns |-> <<>>]
    /\ cur = [c \in Conns |-> 0]
    /\ hdr = [c \in Conns |-> NoHeader]
    /\ headersCol = [c \in Conns |-> <<>>]
    /\ tx = [c \in Conns |-> "none"]
    /\ stmt = [c \in Conns |-> "none"]
    /\ pending = [c \in Conns |-> <<>>]
    /\ failedAt = [c \in Conns |-> "none"]
    /\ outcome = [c \in Conns |-> "none"]
    /\ fwd = [c \in Conns |-> <<>>]
    /\ responded = [c \in Conns |-> FALSE]
    /\ logf = [c \in Conns |-> {}]
    /\ nreq = 0
    /\ rows = <<>>
    /\ openTx = 0
    /\ crashed = FALSE

\* ------------------------------------------------------------------- main
MainInit ==
    /\ mainPc = "NewLogger"
    /\ schema = "pending"

\* main past NewLogger and listening
MainServing ==
    /\ mainPc = "Serving"
    /\ schema = "ok"

\* NewLogger dropping the error of the create table statement
NewLoggerErrDropped ==
    /\ mainPc = "NewLogger"
    /\ \E err \in BOOLEAN : schema' = IF err THEN "failed" ELSE "ok"
    /\ mainPc' = "ListenAndServe"
    /\ UNCHANGED <<pc, sessionVars, requestVars, logReqVars, storeVars, crashed>>
    /\ UNCHANGED <<relayVars, listenerVars>>

\* NewLogger, called first by main: it creates the requests table and
\* panics, through orPanic, if the statement failed; main has no recover
NewLogger ==
    /\ mainPc = "NewLogger"
    /\ \E err \in BOOLEAN :
        IF err
        THEN /\ schema' = "failed"
             /\ mainPc' = "Exited"
        ELSE /\ schema' = "ok"
             /\ mainPc' = "ListenAndServe"
    /\ UNCHANGED <<pc, sessionVars, requestVars, logReqVars, storeVars, crashed>>
    /\ UNCHANGED <<relayVars, listenerVars>>

\* log.Fatal(http.ListenAndServe(*addr, proxy)): the server listens on a
\* listener of its own (net.Listen), or the process exits on the error
ListenAndServe ==
    /\ mainPc = "ListenAndServe"
    /\ \E err \in BOOLEAN : mainPc' = IF err THEN "Exited" ELSE "Serving"
    /\ UNCHANGED <<pc, sessionVars, requestVars, logReqVars, storeVars, crashed>>
    /\ UNCHANGED <<schema, relayVars, listenerVars>>

\* ----------------------------------------------------------- the sessions
\* a request read from a connection becomes the connection's current request,
\* with a context (ctx) of its own
NewRequest(c, h) ==
    /\ nreq < MaxReqs
    /\ nreq' = nreq + 1
    /\ cur' = [cur EXCEPT ![c] = nreq + 1]
    /\ hdr' = [hdr EXCEPT ![c] = h]
    /\ failedAt' = [failedAt EXCEPT ![c] = "none"]
    /\ outcome' = [outcome EXCEPT ![c] = "inflight"]
    /\ fwd' = [fwd EXCEPT ![c] = <<>>]
    /\ responded' = [responded EXCEPT ![c] = FALSE]
    /\ logf' = [logf EXCEPT ![c] = {}]
    /\ pc' = [pc EXCEPT ![c] = "DoFunc"]

\* the connection closes, and its session state goes with it
Close(c) ==
    /\ pc' = [pc EXCEPT ![c] = "Closed"]
    /\ route' = [route EXCEPT ![c] = "None"]
    /\ target' = [target EXCEPT ![c] = <<>>]
    /\ cur' = [cur EXCEPT ![c] = 0]
    /\ hdr' = [hdr EXCEPT ![c] = NoHeader]
    /\ failedAt' = [failedAt EXCEPT ![c] = "none"]
    /\ outcome' = [outcome EXCEPT ![c] = "none"]
    /\ fwd' = [fwd EXCEPT ![c] = <<>>]
    /\ responded' = [responded EXCEPT ![c] = FALSE]
    /\ logf' = [logf EXCEPT ![c] = {}]

\* the first request of a connection is a CONNECT: the handlers classify it
DispatchConnect(c) ==
    /\ mainPc = "Serving"
    /\ ~crashed
    /\ pc[c] = "Idle"
    /\ \E host \in Targets :
        /\ target' = [target EXCEPT ![c] = host]
        /\ route' = [route EXCEPT ![c] = HandleConnect(httpsHandlers, host)]
        /\ pc' = [pc EXCEPT ![c] = EntryPc(HandleConnect(httpsHandlers, host))]
    /\ UNCHANGED <<requestVars, logReqVars, storeVars, crashed>>
    /\ UNCHANGED <<mainVars, relayVars, listenerVars>>

\* the first request of a connection is a direct request
DispatchDirect(c) ==
    /\ mainPc = "Serving"
    /\ ~crashed
    /\ pc[c] = "Idle"
    /\ route' = [route EXCEPT ![c] = "Direct"]
    /\ \E h \in SampleHeaders : NewRequest(c, h)
    /\ UNCHANGED <<target, logReqVars, rows, openTx, crashed>>
    /\ UNCHANGED <<mainVars, relayVars, listenerVars>>

\* the TLS handshake with the client of a MITM session
Handshake(c) ==
    /\ ~crashed
    /\ pc[c] = "Handshake"
    /\ \E ok \in BOOLEAN :
        IF ok
        THEN /\ pc' = [pc EXCEPT ![c] = "Read"]
             /\ target' = [target EXCEPT ![c] = <<>>]
             /\ UNCHANGED <<route, requestVars>>
        ELSE Close(c)
    /\ UNCHANGED <<logReqVars, storeVars, crashed>>
    /\ UNCHANGED <<mainVars, relayVars, listenerVars>>

\* the next request of a session (decrypted, or on a kept-alive connection)
ReadRequest(c) ==
    /\ ~crashed
    /\ pc[c] = "Read"
    /\ \E h \in SampleHeaders : NewRequest(c, h)
    /\ UNCHANGED <<sessionVars, logReqVars, rows, openTx, crashed>>
    /\ UNCHANGED <<mainVars, relayVars, listenerVars>>

\* the client ends the session
ClientClose(c) ==
    /\ ~crashed
    /\ pc[c] = "Read"
    /\ Close(c)
    /\ UNCHANGED <<logReqVars, storeVars, crashed>>
    /\ UNCHANGED <<mainVars, relayVars, listenerVars>>

\* ------------------------------------------------- the OnRequest handler
\* DoFunc handing the request on without waiting for LogReq
DoFuncRoundTripFirst(c) ==
    /\ ~crashed
    /\ pc[c] = "DoFunc"
    /\ pc' = [pc EXCEPT ![c] = "RoundTrip"]
    /\ UNCHANGED <<sessionVars, requestVars, logReqVars, storeVars, crashed>>
    /\ UNCHANGED <<mainVars, relayVars, listenerVars>>

\* the DoFunc handler of main: it sets ctx.RoundTripper and calls LogReq
DoFunc(c) ==
    /\ ~crashed
    /\ pc[c] = "DoFunc"
    /\ pc' = [pc EXCEPT ![c] = "LogReq"]
    /\ UNCHANGED <<sessionVars, requestVars, logReqVars, storeVars, crashed>>
    /\ UNCHANGED <<mainVars, relayVars, listenerVars>>

\* LogReq, the loops over req.Header: the map is visited in some order
LogReqHeaders(c) ==
    /\ ~crashed
    /\ pc[c] = "LogReq"
    /\ \E o \in Orders(hdr[c]) :
        headersCol' = [headersCol EXCEPT ![c] = HeadersColOf(hdr[c], o)]
    /\ pc' = [pc EXCEPT ![c] = "Begin"]
    /\ UNCHANGED <<sessionVars, requestVars, tx, stmt, pending, storeVars,
                   crashed>>
    /\ UNCHANGED <<mainVars, relayVars, listenerVars>>

\* tx, _ := logger.db.Begin() : the error is dropped, tx is nil on failure
LogReqBegin(c) ==
    /\ ~crashed
    /\ pc[c] = "Begin"
    /\ \E ok \in BOOLEAN :
        /\ tx' = [tx EXCEPT ![c] = IF ok THEN "open" ELSE "nil"]
        /\ openTx' = IF ok THEN openTx + 1 ELSE openTx
        /\ failedAt' = [failedAt EXCEPT ![c] = IF ok THEN "none" ELSE "Begin"]
    /\ pc' = [pc EXCEPT ![c] = "Prepare"]
    /\ UNCHANGED <<sessionVars, cur, hdr, outcome, fwd, responded, logf,
                   headersCol, stmt, pending, nreq, rows, crashed>>
    /\ UNCHANGED <<mainVars, relayVars, listenerVars>>

\* LogReq's locals go with its frame
Unwind(c) ==
    /\ tx' = [tx EXCEPT ![c] = "none"]
    /\ stmt' = [stmt EXCEPT ![c] = "none"]
    /\ headersCol' = [headersCol EXCEPT ![c] = <<>>]
    /\ pending' = [pending EXCEPT ![c] = <<>>]

\* a nil pointer is dereferenced: LogReq panics
NilDereference(c) ==
    /\ pc' = [pc EXCEPT ![c] = "Panic"]
    /\ outcome' = [outcome EXCEPT ![c] = "panicked"]
    /\ Unwind(c)

\* stmt, _ := tx.Prepare(...) : the error is dropped, stmt is nil on failure
LogReqPrepare(c) ==
    /\ ~crashed
    /\ pc[c] = "Prepare"
    /\ IF tx[c] = "nil"
       THEN /\ NilDereference(c)
            /\ UNCHANGED failedAt
       ELSE /\ \E ok \in BOOLEAN :
                /\ stmt' = [stmt EXCEPT ![c] = IF ok THEN "ok" ELSE "nil"]
                /\ failedAt' =
                       [failedAt EXCEPT ![c] = IF ok THEN "none" ELSE "Prepare"]
            /\ pc' = [pc EXCEPT ![c] = "Exec"]
            /\ UNCHANGED <<outcome, tx, headersCol, pending>>
    /\ UNCHANGED <<sessionVars, cur, hdr, fwd, responded, logf, storeVars,
                   crashed>>
    /\ UNCHANGED <<mainVars, relayVars, listenerVars>>

\* the row LogReq inserts for the request of connection c
RowOf(c) == [req |-> cur[c], headers |-> Join(headersCol[c], CRLF)]

\* LogReqExec inserting outside the transaction: the row is visible at once
LogReqExecAutocommit(c) ==
    /\ ~crashed
    /\ pc[c] = "Exec"
    /\ stmt[c] = "ok"
    /\ rows' = Append(rows, RowOf(c))
    /\ pc' = [pc EXCEPT ![c] = "Commit"]
    /\ UNCHANGED <<sessionVars, requestVars, logReqVars, nreq, openTx, crashed>>
    /\ UNCHANGED <<mainVars, relayVars, listenerVars>>

\* _, err := stmt.Exec(...) ; if err != nil { ctx.Logf(...); return }
LogReqExec(c) ==
    /\ ~crashed
    /\ pc[c] = "Exec"
    /\ IF stmt[c] = "nil"
       THEN /\ NilDereference(c)
            /\ UNCHANGED <<failedAt, logf>>
       ELSE \E ok \in BOOLEAN :
            IF ok
            THEN /\ pending' = [pending EXCEPT ![c] = <<RowOf(c)>>]
                 /\ pc' = [pc EXCEPT ![c] = "Commit"]
                 /\ UNCHANGED <<tx, stmt, headersCol, failedAt, outcome, logf>>
            ELSE /\ logf' = [logf EXCEPT ![c] =
                                @ \cup {"Failed to write request to db"}]
                 /\ failedAt' = [failedAt EXCEPT ![c] = "Exec"]
                 /\ outcome' = [outcome EXCEPT ![c] = "returned"]
                 /\ Unwind(c)
                 /\ pc' = [pc EXCEPT ![c] = "RoundTrip"]
    /\ UNCHANGED <<sessionVars, cur, hdr, fwd, responded, storeVars, crashed>>
    /\ UNCHANGED <<mainVars, relayVars, listenerVars>>

\* LogReqCommit with orPanic(err3) in place of the report
LogReqCommitOrPanic(c) ==
    /\ ~crashed
    /\ pc[c] = "Commit"
    /\ \E ok \in BOOLEAN :
        IF ok
        THEN /\ rows' = rows \o pending[c]
             /\ outcome' = [outcome EXCEPT ![c] = "returned"]
             /\ pc' = [pc EXCEPT ![c] = "RoundTrip"]
             /\ UNCHANGED failedAt
        ELSE /\ failedAt' = [failedAt EXCEPT ![c] = "Commit"]
             /\ outcome' = [outcome EXCEPT ![c] = "panicked"]
             /\ pc' = [pc EXCEPT ![c] = "Panic"]
             /\ UNCHANGED rows
    /\ openTx' = openTx - 1
    /\ Unwind(c)
    /\ UNCHANGED <<sessionVars, cur, hdr, fwd, responded, logf, nreq, crashed>>
    /\ UNCHANGED <<mainVars, relayVars, listenerVars>>

\* err3 := tx.Commit() ; if err3 != nil { ctx.Logf(...) } ; LogReq returns
LogReqCommit(c) ==
    /\ ~crashed
    /\ pc[c] = "Commit"
    /\ \E ok \in BOOLEAN :
        IF ok
        THEN /\ rows' = rows \o pending[c]
             /\ UNCHANGED <<failedAt, logf>>
        ELSE /\ logf' = [logf EXCEPT ![c] =
                            @ \cup {"Failed to commit request to db"}]
             /\ failedAt' = [failedAt EXCEPT ![c] = "Commit"]
             /\ UNCHANGED rows
    /\ outcome' = [outcome EXCEPT ![c] = "returned"]
    /\ openTx' = openTx - 1
    /\ Unwind(c)
    /\ pc' = [pc EXCEPT ![c] = "RoundTrip"]
    /\ UNCHANGED <<sessionVars, cur, hdr, fwd, responded, nreq, crashed>>
    /\ UNCHANGED <<mainVars, relayVars, listenerVars>>

\* DoFunc returned (req, nil): the request goes to ctx.RoundTripper, that is
\* tr.DetailedRoundTrip(req)
RoundTrip(c) ==
    /\ ~crashed
    /\ pc[c] = "RoundTrip"
    /\ fwd' = [fwd EXCEPT ![c] = <<hdr[c]>>]
    /\ pc' = [pc EXCEPT ![c] = "Respond"]
    /\ UNCHANGED <<sessionVars, cur, hdr, failedAt, outcome, responded, logf,
                   logReqVars, storeVars, crashed>>
    /\ UNCHANGED <<mainVars, relayVars, listenerVars>>

\* the response of the round trip is written to the client
Respond(c) ==
    /\ ~crashed
    /\ pc[c] = "Respond"
    /\ responded' = [responded EXCEPT ![c] = TRUE]
    /\ pc' = [pc EXCEPT ![c] = "Read"]
    /\ UNCHANGED <<sessionVars, cur, hdr, failedAt, outcome, fwd, logf,
                   logReqVars, storeVars, crashed>>
    /\ UNCHANGED <<mainVars, relayVars, listenerVars>>

\* a panic in the handler: net/http recovers it on the goroutine serving a
\* direct request and closes the connection; the goroutine of a MITM session
\* has no recover, and the process dies
Panic(c) ==
    /\ ~crashed
    /\ pc[c] = "Panic"
    /\ Close(c)
    /\ crashed' = (route[c] = "Mitm")
    /\ UNCHANGED <<logReqVars, storeVars>>
    /\ UNCHANGED <<mainVars, relayVars, listenerVars>>

\* ------------------------------------------------------ the plaintext relay
RelayInit ==
    /\ rpc = [t \in Tunnels |-> "Dial"]
    /\ dialed = [t \in Tunnels |-> "pending"]
    /\ client = [t \in Tunnels |-> "open"]
    /\ remote = [t \in Tunnels |-> "none"]
    /\ clientBuf = [t \in Tunnels |-> <<>>]
    /\ remoteBuf = [t \in Tunnels |-> <<>>]
    /\ clientOut = [t \in Tunnels |-> <<>>]
    /\ remoteOut = [t \in Tunnels |-> <<>>]
    /\ nread = [t \in Tunnels |-> 0]
    /\ nresp = [t \in Tunnels |-> 0]
    /\ req = [t \in Tunnels |-> 0]
    /\ resp = [t \in Tunnels |-> 0]
    /\ e = [t \in Tunnels |-> "none"]

\* the messages on the wire of a tunnel
Status(code) == <<"status", code>>
Request(i) == <<"request", i>>
Response(i) == <<"response", i>>

\* the response upstream gives to the k-th request it received
UpstreamResponse(t, k) == Response(remoteOut[t][k][2])

\* orPanic(err) with err != nil: the handler unwinds to its deferred function
OrPanic(t, err) ==
    /\ e' = [e EXCEPT ![t] = err]
    /\ rpc' = [rpc EXCEPT ![t] = "Deferred"]

\* Dial with the 200 written to the client before the dial is attempted
DialAfterReply(t) ==
    /\ rpc[t] = "Dial"
    /\ clientOut' = [clientOut EXCEPT ![t] = Append(@, Status(200))]
    /\ \E ok \in BOOLEAN :
        IF ok
        THEN /\ dialed' = [dialed EXCEPT ![t] = "ok"]
             /\ remote' = [remote EXCEPT ![t] = "open"]
             /\ rpc' = [rpc EXCEPT ![t] = "ReadRequest"]
             /\ UNCHANGED e
        ELSE /\ dialed' = [dialed EXCEPT ![t] = "failed"]
             /\ OrPanic(t, "err")
             /\ UNCHANGED remote
    /\ UNCHANGED <<client, clientBuf, remoteBuf, remoteOut, nread, nresp, req,
                   resp>>
    /\ UNCHANGED <<proxyVars, listenerVars>>

\* remote, err := net.Dial("tcp", req.URL.Host) ; orPanic(err)
Dial(t) ==
    /\ rpc[t] = "Dial"
    /\ \E ok \in BOOLEAN :
        IF ok
        THEN /\ dialed' = [dialed EXCEPT ![t] = "ok"]
             /\ remote' = [remote EXCEPT ![t] = "open"]
             /\ rpc' = [rpc EXCEPT ![t] = "Reply"]
             /\ UNCHANGED e
        ELSE /\ dialed' = [dialed EXCEPT ![t] = "failed"]
             /\ OrPanic(t, "err")
             /\ UNCHANGED remote
    /\ UNCHANGED <<client, clientBuf, remoteBuf, clientOut, remoteOut, nread,
                   nresp, req, resp>>
    /\ UNCHANGED <<proxyVars, listenerVars>>

\* client.Write([]byte("HTTP/1.1 200 Ok\r\n\r\n"))
Reply(t) ==
    /\ rpc[t] = "Reply"
    /\ clientOut' = [clientOut EXCEPT ![t] = Append(@, Status(200))]
    /\ rpc' = [rpc EXCEPT ![t] = "ReadRequest"]
    /\ UNCHANGED <<dialed, client, remote, clientBuf, remoteBuf, remoteOut,
                   nread, nresp, req, resp, e>>
    /\ UNCHANGED <<proxyVars, listenerVars>>

\* req, err := http.ReadRequest(clientBuf.Reader) ; orPanic(err) : the client
\* has sent its next request, or has closed (io.EOF), or what it sent does
\* not parse
ReadTunnelRequest(t) ==
    /\ rpc[t] = "ReadRequest"
    /\ \E got \in {"request", "EOF", "err"} :
        IF got = "request"
        THEN /\ nread[t] < MaxTunnelReqs
             /\ nread' = [nread EXCEPT ![t] = @ + 1]
             /\ req' = [req EXCEPT ![t] = nread[t] + 1]
             /\ rpc' = [rpc EXCEPT ![t] = "WriteRequest"]
             /\ UNCHANGED e
        ELSE /\ OrPanic(t, got)
             /\ UNCHANGED <<nread, req>>
    /\ UNCHANGED <<dialed, client, remote, clientBuf, remoteBuf, clientOut,
                   remoteOut, nresp, resp>>
    /\ UNCHANGED <<proxyVars, listenerVars>>

\* orPanic(req.Write(remoteBuf))
WriteRequest(t) ==
    /\ rpc[t] = "WriteRequest"
    /\ \E ok \in BOOLEAN :
        IF ok
        THEN /\ remoteBuf' = [remoteBuf EXCEPT ![t] = Append(@, Request(req[t]))]
             /\ rpc' = [rpc EXCEPT ![t] = "FlushRemote"]
             /\ UNCHANGED e
        ELSE /\ OrPanic(t, "err")
             /\ UNCHANGED remoteBuf
    /\ UNCHANGED <<dialed, client, remote, clientBuf, clientOut, remoteOut,
                   nread, nresp, req, resp>>
    /\ UNCHANGED <<proxyVars, listenerVars>>

\* FlushRemote going back to read the next request: a pipelining relay
FlushRemotePipelined(t) ==
    /\ rpc[t] = "FlushRemote"
    /\ remoteOut' = [remoteOut EXCEPT ![t] = @ \o remoteBuf[t]]
    /\ remoteBuf' = [remoteBuf EXCEPT ![t] = <<>>]
    /\ rpc' = [rpc EXCEPT ![t] = IF nread[t] < MaxTunnelReqs
                                 THEN "ReadRequest" ELSE "ReadResponse"]
    /\ UNCHANGED <<dialed, client, remote, clientBuf, clientOut, nread, nresp,
                   req, resp, e>>
    /\ UNCHANGED <<proxyVars, listenerVars>>

\* orPanic(remoteBuf.Flush())
FlushRemote(t) ==
    /\ rpc[t] = "FlushRemote"
    /\ \E ok \in BOOLEAN :
        IF ok
        THEN /\ remoteOut' = [remoteOut EXCEPT ![t] = @ \o remoteBuf[t]]
             /\ remoteBuf' = [remoteBuf EXCEPT ![t] = <<>>]
             /\ rpc' = [rpc EXCEPT ![t] = "ReadResponse"]
             /\ UNCHANGED e
        ELSE /\ OrPanic(t, "err")
             /\ UNCHANGED <<remoteOut, remoteBuf>>
    /\ UNCHANGED <<dialed, client, remote, clientBuf, clientOut, nread, nresp,
                   req, resp>>
    /\ UNCHANGED <<proxyVars, listenerVars>>

\* resp, err := http.ReadResponse(remoteBuf.Reader, req) ; orPanic(err) :
\* upstream answers the requests it received in the order it received them
ReadResponse(t) ==
    /\ rpc[t] = "ReadResponse"
    /\ \E ok \in BOOLEAN :
        IF ok
        THEN /\ nresp[t] < Len(remoteOut[t])
             /\ nresp' = [nresp EXCEPT ![t] = @ + 1]
             /\ resp' = [resp EXCEPT ![t] = UpstreamResponse(t, nresp[t] + 1)[2]]
             /\ rpc' = [rpc EXCEPT ![t] = "WriteResponse"]
             /\ UNCHANGED e
        ELSE /\ OrPanic(t, "err")
             /\ UNCHANGED <<nresp, resp>>
    /\ UNCHANGED <<dialed, client, remote, clientBuf, remoteBuf, clientOut,
                   remoteOut, nread, req>>
    /\ UNCHANGED <<proxyVars, listenerVars>>

\* orPanic(resp.Write(clientBuf.Writer))
WriteResponse(t) ==
    /\ rpc[t] = "WriteResponse"
    /\ \E ok \in BOOLEAN :
        IF ok
        THEN /\ clientBuf' = [clientBuf EXCEPT ![t] = Append(@, Response(resp[t]))]
             /\ rpc' = [rpc EXCEPT ![t] = "FlushClient"]
             /\ UNCHANGED e
        ELSE /\ OrPanic(t, "err")
             /\ UNCHANGED clientBuf
    /\ UNCHANGED <<dialed, client, remote, remoteBuf, clientOut, remoteOut,
                   nread, nresp, req, resp>>
    /\ UNCHANGED <<proxyVars, listenerVars>>

\* orPanic(clientBuf.Flush()) ; the loop goes round
FlushClient(t) ==
    /\ rpc[t] = "FlushClient"
    /\ \E ok \in BOOLEAN :
        IF ok
        THEN /\ clientOut' = [clientOut EXCEPT ![t] = @ \o clientBuf[t]]
             /\ clientBuf' = [clientBuf EXCEPT ![t] = <<>>]
             /\ rpc' = [rpc EXCEPT ![t] = "ReadRequest"]
             /\ UNCHANGED e
        ELSE /\ OrPanic(t, "err")
             /\ UNCHANGED <<clientOut, clientBuf>>
    /\ UNCHANGED <<dialed, client, remote, remoteBuf, remoteOut, nread, nresp,
                   req, resp>>
    /\ UNCHANGED <<proxyVars, listenerVars>>

\* Deferred without the recover: the panic leaves the handler's goroutine
DeferredNoRecover(t) ==
    /\ rpc[t] = "Deferred"
    /\ client' = [client EXCEPT ![t] = "closed"]
    /\ rpc' = [rpc EXCEPT ![t] = "Done"]
    /\ crashed' = (e[t] # "none")
    /\ UNCHANGED <<dialed, remote, clientBuf, remoteBuf, clientOut, remoteOut,
                   nread, nresp, req, resp, e>>
    /\ UNCHANGED <<pc, sessionVars, requestVars, logReqVars, storeVars,
                   mainVars, listenerVars>>

\* the deferred function: if e := recover(); e != nil { ctx.Logf(...);
\* client.Write("HTTP/1.1 500 Cannot reach remote") } ; client.Close()
Deferred(t) ==
    /\ rpc[t] = "Deferred"
    /\ clientOut' = [clientOut EXCEPT ![t] =
                        IF e[t] # "none" THEN Append(@, Status(500)) ELSE @]
    /\ client' = [client EXCEPT ![t] = "closed"]
    /\ rpc' = [rpc EXCEPT ![t] = "Done"]
    /\ UNCHANGED <<dialed, remote, clientBuf, remoteBuf, remoteOut, nread,
                   nresp, req, resp, e>>
    /\ UNCHANGED <<proxyVars, listenerVars>>

\* --------------------------------------------------- the stoppable listener
Accepts == 1..MaxAccepts

\* newStoppableListener(l): a fresh WaitGroup, nothing accepted yet
ListenerInit ==
    /\ counter = 0
    /\ sock = [a \in Accepts |-> "none"]
    /\ closeCalls = [a \in Accepts |-> 0]
    /\ closeRet = [a \in Accepts |-> "none"]
    /\ acceptCalls = 0
    /\ waiter = "none"
    /\ openAtRelease = {}
    /\ wgPanic = FALSE

\* sync.WaitGroup.Add(delta): the counter moves by delta, and a counter that
\* went negative panics
WaitGroupAdd(delta) ==
    /\ counter' = counter + delta
    /\ wgPanic' = (counter + delta < 0)

\* Accept counting the connection before it looks at the error
AcceptAddFirst ==
    /\ ~wgPanic
    /\ acceptCalls < MaxAccepts
    /\ acceptCalls' = acceptCalls + 1
    /\ WaitGroupAdd(1)
    /\ \E err \in BOOLEAN :
        sock' = [sock EXCEPT ![acceptCalls + 1] = IF err THEN "none" ELSE "open"]
    /\ UNCHANGED <<closeCalls, closeRet, waiter, openAtRelease>>
    /\ UNCHANGED <<proxyVars, relayVars>>

\* stoppableListener.Accept: c, err := sl.Listener.Accept() ; on an error it
\* returns it, else sl.Add(1) and the wrapped connection
Accept ==
    /\ ~wgPanic
    /\ acceptCalls < MaxAccepts
    /\ acceptCalls' = acceptCalls + 1
    /\ \E err \in BOOLEAN :
        IF err
        THEN UNCHANGED <<counter, wgPanic, sock>>
        ELSE /\ WaitGroupAdd(1)
             /\ sock' = [sock EXCEPT ![acceptCalls + 1] = "open"]
    /\ UNCHANGED <<closeCalls, closeRet, waiter, openAtRelease>>
    /\ UNCHANGED <<proxyVars, relayVars>>

\* Close that closes the socket and leaves the WaitGroup alone
StoppableConnCloseNoDone(a) ==
    /\ ~wgPanic
    /\ sock[a] # "none"
    /\ closeCalls[a] < MaxCloses
    /\ closeCalls' = [closeCalls EXCEPT ![a] = @ + 1]
    /\ sock' = [sock EXCEPT ![a] = "closed"]
    /\ \E err \in BOOLEAN :
        /\ (sock[a] = "closed" => err)
        /\ closeRet' = [closeRet EXCEPT ![a] = IF err THEN "err" ELSE "nil"]
    /\ UNCHANGED <<counter, wgPanic, acceptCalls, waiter, openAtRelease>>
    /\ UNCHANGED <<proxyVars, relayVars>>

\* stoppableConn.Close: sc.wg.Done() ; return sc.Conn.Close() : the socket is
\* closed unless Done panicked, and closing a closed socket is an error
StoppableConnClose(a) ==
    /\ ~wgPanic
    /\ sock[a] # "none"
    /\ closeCalls[a] < MaxCloses
    /\ closeCalls' = [closeCalls EXCEPT ![a] = @ + 1]
    /\ WaitGroupAdd(-1)
    /\ IF counter - 1 < 0
       THEN UNCHANGED <<sock, closeRet>>
       ELSE /\ sock' = [sock EXCEPT ![a] = "closed"]
            /\ \E err \in BOOLEAN :
                /\ (sock[a] = "closed" => err)
                /\ closeRet' = [closeRet EXCEPT ![a] = IF err THEN "err" ELSE "nil"]
    /\ UNCHANGED <<acceptCalls, waiter, openAtRelease>>
    /\ UNCHANGED <<proxyVars, relayVars>>

\* a goroutine calls sl.Wait() to drain the listener
Wait ==
    /\ ~wgPanic
    /\ waiter = "none"
    /\ waiter' = "waiting"
    /\ UNCHANGED <<counter, sock, closeCalls, closeRet, acceptCalls,
                   openAtRelease, wgPanic>>
    /\ UNCHANGED <<proxyVars, relayVars>>

\* sl.Wait() returns: the counter is zero
WaitReturn ==
    /\ ~wgPanic
    /\ waiter = "waiting"
    /\ counter = 0
    /\ waiter' = "released"
    /\ openAtRelease' = {a \in Accepts : sock[a] = "open"}
    /\ UNCHANGED <<counter, sock, closeCalls, closeRet, acceptCalls, wgPanic>>
    /\ UNCHANGED <<proxyVars, relayVars>>

\* ---------------------------------------------------------- specifications
Init == MainInit /\ ProxyInit /\ RelayInit /\ ListenerInit

Serve(c) ==
    \/ DispatchConnect(c)
    \/ DispatchDirect(c)
    \/ Handshake(c)
    \/ ReadRequest(c)
    \/ ClientClose(c)

Handle(c) ==
    \/ DoFunc(c)
    \/ LogReqHeaders(c)
    \/ LogReqBegin(c)
    \/ LogReqPrepare(c)
    \/ LogReqExec(c)
    \/ LogReqCommit(c)
    \/ RoundTrip(c)
    \/ Respond(c)
    \/ Panic(c)

Next ==
    \/ NewLogger
    \/ ListenAndServe
    \/ \E c \in Conns : Serve(c) \/ Handle(c)

\* the proxy: NumConns connections, MaxReqs requests
Spec == Init /\ [][Next]_vars

\* LogReq on one request, direct or decrypted, with any header map in the bounds
InitLog ==
    /\ \E r \in {"Direct", "Mitm"}, h \in AllHeaders :
        /\ pc = [c \in Conns |-> IF c = 1 THEN "DoFunc" ELSE "Idle"]
        /\ route = [c \in Conns |-> IF c = 1 THEN r ELSE "None"]
        /\ hdr = [c \in Conns |-> IF c = 1 THEN h ELSE NoHeader]
    /\ cur = [c \in Conns |-> IF c = 1 THEN 1 ELSE 0]
    /\ outcome = [c \in Conns |-> IF c = 1 THEN "inflight" ELSE "none"]
    /\ nreq = 1
    /\ target = [c \in Conns |-> <<>>]
    /\ headersCol = [c \in Conns |-> <<>>]
    /\ tx = [c \in Conns |-> "none"]
    /\ stmt = [c \in Conns |-> "none"]
    /\ pending = [c \in Conns |-> <<>>]
    /\ failedAt = [c \in Conns |-> "none"]
    /\ fwd = [c \in Conns |-> <<>>]
    /\ responded = [c \in Conns |-> FALSE]
    /\ logf = [c \in Conns |-> {}]
    /\ rows = <<>>
    /\ openTx = 0
    /\ crashed = FALSE
    /\ MainServing
    /\ RelayInit
    /\ ListenerInit

NextLog == \E c \in Conns : Handle(c)

SpecLog == InitLog /\ [][NextLog]_vars

\* the HijackConnect handler, on NumTunnels hijacked connections
Relay(t) ==
    \/ Dial(t)
    \/ Reply(t)
    \/ ReadTunnelRequest(t)
    \/ WriteRequest(t)
    \/ FlushRemote(t)
    \/ ReadResponse(t)
    \/ WriteResponse(t)
    \/ FlushClient(t)
    \/ Deferred(t)

NextRelay == \E t \in Tunnels : Relay(t)

InitRelay == MainServing /\ ProxyInit /\ RelayInit /\ ListenerInit

SpecRelay == InitRelay /\ [][NextRelay]_vars

\* the stoppable listener under any calls of Accept, Close and Wait
NextListener ==
    \/ Accept
    \/ \E a \in Accepts : StoppableConnClose(a)
    \/ Wait
    \/ WaitReturn

SpecListener == Init /\ [][NextListener]_vars

\* a drain: connections are accepted until the drain wait starts, and every
\* accepted connection is closed, once, by the goroutine serving it
AcceptBeforeDrain ==
    /\ waiter = "none"
    /\ Accept

CloseOnce(a) ==
    /\ closeCalls[a] = 0
    /\ StoppableConnClose(a)

NextDrain ==
    \/ AcceptBeforeDrain
    \/ \E a \in Accepts : CloseOnce(a)
    \/ Wait
    \/ WaitReturn

\* every serving goroutine gets to its Close, and the runtime wakes the
\* goroutine blocked in Wait once the counter is zero
FairDrain ==
    /\ \A a \in Accepts : WF_vars(CloseOnce(a))
    /\ WF_vars(WaitReturn)

SpecDrain == Init /\ [][NextDrain]_vars /\ FairDrain

\* ------------------------------------------------------------------ claims
PortSuffix80 == <<":", "8", "0">>

\* C1: every CONNECT whose target ends in ":80" is routed to the plaintext
\* relay (the hijack handler), and every other CONNECT to the MITM path.
C1_Port80ToRelay ==
    \A c \in Conns :
        target[c] # <<>> =>
            route[c] = IF HasSuffix(target[c], PortSuffix80)
                       THEN "Hijack" ELSE "Mitm"

\* the responses flushed to the client of tunnel t
FlushedResponses(t) ==
    SelectSeq(clientOut[t], LAMBDA m : m[1] = "response")

\* C2: on one tunnel, request i+1 is not read before response i is flushed to
\* the client, at most one request is outstanding upstream, and each
\* iteration goes read request, write and flush upstream, read response,
\* write and flush to the client.
C2_StrictlySequential ==
    \A t \in Tunnels :
        /\ nread[t] <= Len(FlushedResponses(t)) + 1
        /\ Len(remoteOut[t]) - nresp[t] \in {0, 1}
        /\ Len(remoteOut[t]) + Len(remoteBuf[t]) <= nread[t]
        /\ nresp[t] <= Len(remoteOut[t])
        /\ Len(FlushedResponses(t)) + Len(clientBuf[t]) <= nresp[t]
        /\ nresp[t] >= nread[t] - 1
        /\ rpc[t] = "ReadRequest" =>
               /\ Len(FlushedResponses(t)) = nread[t]
               /\ clientBuf[t] = <<>> /\ remoteBuf[t] = <<>>

C2_Witness ==
    \E t \in Tunnels :
        /\ nread[t] = 2
        /\ rpc[t] = "ReadRequest"
        /\ FlushedResponses(t) = <<Response(1), Response(2)>>

\* C3: when the client sent N requests and then closed, the client side saw
\* the 200, then exactly the N responses in order, and nothing else.
C3_ExactlyNResponses ==
    \A t \in Tunnels :
        (rpc[t] = "Done" /\ e[t] = "EOF") =>
            clientOut[t] = <<Status(200)>> \o [i \in 1..nread[t] |-> Response(i)]

Has(t, m) == \E i \in DOMAIN clientOut[t] : clientOut[t][i] = m

\* C4: the 200 is written only after the dial succeeded; after a failed dial
\* the client gets the 500 and no 200, and its connection is closed.
C4_ReplyAfterDial ==
    \A t \in Tunnels :
        /\ Has(t, Status(200)) => dialed[t] = "ok"
        /\ dialed[t] = "failed" => ~Has(t, Status(200))
        /\ (dialed[t] = "failed" /\ rpc[t] = "Done") =>
               /\ clientOut[t] = <<Status(500)>>
               /\ client[t] = "closed"

C4_Witness ==
    /\ \E t \in Tunnels :
        dialed[t] = "failed" /\ rpc[t] = "Done" /\ Has(t, Status(500))
    /\ \E t \in Tunnels : dialed[t] = "ok" /\ Has(t, Status(200))

\* C5: once the 200 has been sent, nothing but relayed responses is written
\* to the client: a later failure or EOF only closes the connection.
C5_NoStatusAfter200 ==
    \A t \in Tunnels :
        \A i, j \in DOMAIN clientOut[t] :
            (i < j /\ clientOut[t][i] = Status(200)) =>
                clientOut[t][j][1] # "status"

\* C6: when the relay has terminated, the client connection and the upstream
\* connection dialed for the tunnel are both closed.
C6_BothEndsClosed ==
    \A t \in Tunnels :
        (rpc[t] = "Done" /\ dialed[t] = "ok") =>
            (client[t] = "closed" /\ remote[t] = "closed")

HasRow(r) == \E i \in DOMAIN rows : rows[i].req = r

\* C7: when the insert or the commit fails, LogReq reports it and returns
\* without a panic, and no row of the request is visible, then or later; a
\* row is visible only once its commit has succeeded.
C7_AtomicLog ==
    \A c \in Conns :
        /\ failedAt[c] \in {"Exec", "Commit"} =>
               /\ outcome[c] = "returned"
               /\ pc[c] # "Panic"
               /\ logf[c] # {}
               /\ ~HasRow(cur[c])
        /\ (cur[c] # 0 /\ HasRow(cur[c])) =>
               (outcome[c] = "returned" /\ failedAt[c] = "none")

C7_Witness ==
    /\ rows # <<>>
    /\ \E c \in Conns :
        failedAt[c] = "Commit" /\ outcome[c] = "returned" /\ ~HasRow(cur[c])

\* C8: a failed insert or commit does not abort the request: it goes on,
\* unchanged, to the round trip, and its response goes back to the client,
\* while the log holds no row of it.
C8_LoggingNeverAborts ==
    \A c \in Conns :
        failedAt[c] \in {"Exec", "Commit"} =>
            /\ pc[c] \in {"RoundTrip", "Respond", "Read"}
            /\ pc[c] \in {"Respond", "Read"} => fwd[c] = <<hdr[c]>>
            /\ pc[c] = "Read" => responded[c]
            /\ ~HasRow(cur[c])

C8_Witness ==
    \E c \in Conns :
        /\ failedAt[c] \in {"Exec", "Commit"}
        /\ responded[c]
        /\ fwd[c] = <<hdr[c]>>
        /\ hdr[c] # NoHeader

\* a CR LF stands at place i of the text
AtLineBreak(text, i) ==
    i < Len(text) /\ text[i] = "\r" /\ text[i + 1] = "\n"

\* the text cut at every CR LF
RECURSIVE SplitLines(_)
SplitLines(text) ==
    IF \E i \in 1..Len(text) : AtLineBreak(text, i)
    THEN LET i == CHOOSE k \in 1..Len(text) :
                    /\ AtLineBreak(text, k)
                    /\ \A j \in 1..(k - 1) : ~AtLineBreak(text, j)
         IN <<SubSeq(text, 1, i - 1)>> \o SplitLines(SubSeq(text, i + 2, Len(text)))
    ELSE IF text = <<>> THEN <<>> ELSE <<text>>

\* the names of HeaderNames, lower-cased
LowerCased(name) == IF name = <<"A", "b">> THEN <<"a", "b">> ELSE <<"c">>

\* the text is the lines "name: value" separated by CR LF: one line per
\* header value, the name lower-cased, the value as it is, and the lines of
\* one name in the order of its values
IsHeaderText(text, h) ==
    LET lines == SplitLines(text)
        OfName(n) == SelectSeq(lines, LAMBDA l : HasPrefix(l, LowerCased(n) \o <<":", " ">>))
    IN /\ Len(lines) = Cardinality({p \in (DOMAIN h) \X (1..(MaxVals + 1)) :
                                        p[2] <= Len(h[p[1]])})
       /\ \A n \in DOMAIN h :
            OfName(n) = [i \in 1..Len(h[n]) |->
                            LowerCased(n) \o <<":", " ">> \o h[n][i]]

\* C9: a request whose insert and commit succeed has exactly one row, whose
\* headers text is its "name: value" lines joined by line breaks: names
\* lower-cased, values unchanged, each name's values in order, all of them.
C9_RowHeaders ==
    \A c \in Conns :
        /\ (outcome[c] = "returned" /\ failedAt[c] = "none") =>
               Cardinality({i \in DOMAIN rows : rows[i].req = cur[c]}) = 1
        /\ \A i \in DOMAIN rows :
               rows[i].req = cur[c] => IsHeaderText(rows[i].headers, hdr[c])

C9_Witness ==
    \E c \in Conns :
        /\ HasRow(cur[c])
        /\ DOMAIN hdr[c] = HeaderNames
        /\ hdr[c][<<"A", "b">>] = <<(<<"v">>), (<<"W">>)>>
        /\ hdr[c][<<"C">>] = <<(<<"W">>), (<<"W">>)>>

\* C10: the round trip of a request, direct or decrypted, starts only after
\* LogReq has returned for it.
C10_LogBeforeRoundTrip ==
    \A c \in Conns :
        (pc[c] = "RoundTrip" \/ fwd[c] # <<>>) => outcome[c] = "returned"

C10_Witness ==
    \E c, d \in Conns :
        /\ route[c] = "Direct" /\ fwd[c] # <<>>
        /\ route[d] = "Mitm" /\ fwd[d] # <<>>

\* C11: under any calls of Accept and Close, Close twice on one connection
\* included, a drain wait does not complete while an accepted connection is
\* not closed: the counter is zero only when no connection is in flight.
C11_DrainWaitsForAll ==
    /\ waiter = "released" => openAtRelease = {}
    /\ counter = 0 => \A a \in Accepts : sock[a] # "open"

\* C12: with tunnels relayed concurrently, a failure on one of them (a
\* failed dial, a truncated response, any failed step) ends that tunnel
\* only: the process does not fault, and every other tunnel goes on relaying
\* its pairs in order until its own client closes or its own step fails.
C12_FailureIsolated ==
    (\E a \in Tunnels : e[a] = "err") =>
        /\ ~crashed
        /\ \A b \in Tunnels :
            /\ e[b] = "none" =>
                   (client[b] = "open" /\ rpc[b] \notin {"Deferred", "Done"})
            /\ FlushedResponses(b) =
                   [i \in 1..Len(FlushedResponses(b)) |-> Response(i)]

C12_Witness ==
    \E a, b \in Tunnels :
        /\ a # b
        /\ e[a] = "err" /\ rpc[a] = "Done" /\ dialed[a] = "ok"
        /\ nresp[a] < Len(remoteOut[a])
        /\ e[b] = "EOF" /\ rpc[b] = "Done"
        /\ FlushedResponses(b) = <<Response(1), Response(2)>>

\* C13: every connection the dispatcher serves was accepted through the
\* stoppable listener, so that the in-flight counter counts it from its
\* accept until its close: the counter is never below the number of
\* connections being served.
Served == {c \in Conns : pc[c] \notin {"Idle", "Closed"}}

C13_ServedAreCounted == Cardinality(Served) <= counter

\* C15: if every accepted connection is closed, exactly once, and no
\* connection is accepted once the drain wait has started, the wait
\* eventually completes.
C15_DrainCompletes == (waiter = "waiting") ~> (waiter = "released")

C15_Witness ==
    /\ waiter = "released"
    /\ Cardinality({a \in Accepts : sock[a] = "closed"}) >= 2
    /\ \E a \in Accepts : closeRet[a] = "err"

\* C16: a call of Accept that fails leaves the in-flight counter as it was,
\* and a call that succeeds adds exactly one to it.
C16_AcceptFrame ==
    [][acceptCalls' = acceptCalls + 1 =>
           IF sock'[acceptCalls'] = "none"
           THEN counter' = counter
           ELSE counter' = counter + 1]_vars

C16_Witness ==
    /\ \E a, b \in 1..acceptCalls : sock[a] = "none" /\ sock[b] = "open"
    /\ counter = 1

\* C17: if creating the requests table fails at startup, startup is aborted:
\* main never listens, and no connection is ever accepted or served.
C17_SchemaFailureAborts ==
    schema = "failed" =>
        /\ mainPc = "Exited"
        /\ \A c \in Conns : pc[c] = "Idle"

C17_Witness == schema = "failed" /\ mainPc = "Exited"

\* C18: under any calls of Accept and Close, Close more than once on one
\* connection and a Close whose socket close returns an error included, the
\* in-flight counter is never negative and the WaitGroup does not panic.
C18_CounterNeverNegative == counter >= 0 /\ ~wgPanic

\* C19: LogReq returns normally when beginning the transaction or preparing
\* the statement fails, as it does for the insert and the commit: it does
\* not fault on the missing transaction or statement, and the request goes
\* on to the round trip.
C19_BeginPrepareFailuresReturn ==
    /\ ~crashed
    /\ \A c \in Conns :
        (failedAt[c] \in {"Begin", "Prepare"} /\ pc[c] \notin {"Prepare", "Exec"}) =>
            /\ outcome[c] = "returned"
            /\ pc[c] \in {"RoundTrip", "Respond", "Read"}

\* C20: every transaction LogReq begins is committed or rolled back by the
\* time LogReq returns, on the path of a failed insert too: once a call has
\* returned, the transactions still open are those of the calls of LogReq
\* in progress.
C20_NoTransactionOutlivesLogReq ==
    (\E c \in Conns : outcome[c] = "returned") =>
        openTx = Cardinality({c \in Conns : tx[c] = "open"})

====
